---- MODULE Spec2Model ----
(***************************************************************************)
(* renc-rs (src/src/lib.rs): a safe wrapper around the single-instance     *)
(* Ren-C runtime.  The model has the process-wide REB_STARTED_UP flag, the *)
(* threads that create and drop a RebEngine, the RebValues each thread     *)
(* holds, and the foreign runtime (renc_sys) the wrapper calls into: its   *)
(* started state, its table of value handles and its evaluator.            *)
(***************************************************************************)
EXTENDS Integers, Sequences, FiniteSets, Bags, TLC

\* ------------------------------------------------------------------ bounds
NThreads == 2
MaxEngines == 2
MaxVals == 1

Threads == 1..NThreads
\* Handles the runtime can have allocated at once: the Values a thread may
\* hold, the temporary Values a caller makes for the arguments of one call
\* (three at most, for value3), and the two handles a call itself holds at
\* once (the trapped result and one field or inner value).
MaxHandles == MaxVals + 5
Handles == 1..MaxHandles
NULL == 0

\* The largest integer of the runtime (it stands for the 64-bit maximum): a
\* sum beyond it raises a math overflow error.
MaxInt == 2
\* The integers callers pass to integer().
Ints == {0, 1}

\* The width of i64, scaled down: I64Bits bits stand for 64.  isize has the
\* pointer width of the build target: all of them, or half of them (32).
I64Bits == 6
I64 == (-(2 ^ (I64Bits - 1))) .. (2 ^ (I64Bits - 1) - 1)
IsizeBits == {I64Bits, I64Bits \div 2}
\* v as a two's complement integer of the given width.
ToWidth(v, bits) == ((v + 2 ^ (bits - 1)) % (2 ^ bits)) - 2 ^ (bits - 1)

VARIABLES REB_STARTED_UP, pc, panicking, rt, vals, last

vars == <<REB_STARTED_UP, pc, panicking, rt, vals, last>>

\* ------------------------------------------------------- runtime: cells
\* A runtime cell: its datatype, a payload, and for a block its elements.
Cell(k, v, e) == [kind |-> k, val |-> v, elem |-> e]
IntCell(i) == Cell("integer", i, <<>>)
ErrCell(code) == Cell("error", code, <<>>)
NullCell == Cell("null", 0, <<>>)
LogicCell(b) == Cell("logic", IF b THEN 1 ELSE 0, <<>>)
TextCell(code) == Cell("text", code, <<>>)
BlockOf(c) == Cell("block", 0, <<c>>)
FirstOf(c) == c.elem[1]

\* A slot of the handle table: free, or live and holding a cell.
FreeSlot == [live |-> FALSE, cell |-> NullCell]
LiveSlot(c) == [live |-> TRUE, cell |-> c]

RtInit ==
    [up |-> FALSE, startups |-> 0, shutdowns |-> 0,
     heap |-> [h \in Handles |-> FreeSlot],
     isize |-> I64Bits, bufs |-> 0, text |-> "", log |-> <<>>,
     fault |-> FALSE, stale |-> FALSE, badRelease |-> FALSE,
     badFree |-> FALSE, badRead |-> FALSE, nullArg |-> FALSE, noEnd |-> FALSE]

LiveHandles(r) == {h \in Handles : r.heap[h].live}

\* The handle is one of the runtime instance that is started now.
Current(r, h) == r.up /\ r.heap[h].live

\* A foreign call is handed handle h: note a use of a handle that is not one
\* of the started runtime instance (the runtime is down, or the handle was
\* freed, by a release or by the shutdown of the instance that made it).
Touch(r, h) ==
    IF h = NULL \/ Current(r, h) THEN r ELSE [r EXCEPT !.stale = TRUE]

rebStartup(r) ==
    [r EXCEPT !.up = TRUE, !.startups = @ + 1]

\* rebShutdown(true): full teardown, every handle of the instance is gone.
rebShutdown(r) ==
    [r EXCEPT !.up = FALSE, !.shutdowns = @ + 1,
              !.heap = [h \in Handles |-> FreeSlot],
              !.bufs = 0, !.text = ""]

\* The runtime allocates a handle for cell c; a null result is the null
\* pointer and takes no handle.
FreshHandle(r) == CHOOSE h \in Handles :
    /\ ~r.heap[h].live
    /\ \A g \in Handles : ~r.heap[g].live => h <= g

AllocAt(r, c, h) ==
    [rt |-> [r EXCEPT !.heap[h] = LiveSlot(c)], h |-> h]

Alloc(r, c) ==
    IF c.kind = "null" THEN [rt |-> r, h |-> NULL]
    ELSE AllocAt(r, c, FreshHandle(r))

rebRelease(r, h) ==
    IF h = NULL THEN r
    ELSE IF ~r.up THEN [r EXCEPT !.stale = TRUE]
    ELSE IF ~r.heap[h].live THEN [r EXCEPT !.badRelease = TRUE]
    ELSE [r EXCEPT !.heap[h] = FreeSlot]

rebVoid(r) == Alloc(r, Cell("void", 0, <<>>))
rebBlank(r) == Alloc(r, Cell("blank", 0, <<>>))
rebChar(r, c) == Alloc(r, Cell("char", c, <<>>))
rebInteger(r, i) == Alloc(r, IntCell(i))
rebDecimal(r, d) == Alloc(r, Cell("decimal", d, <<>>))

\* --------------------------------------------------- runtime: evaluator
\* A pointer of a variadic fragment list: UTF-8 source text, a value handle,
\* or the end-of-list sentinel.
REB_END == <<128, 0>>
Utf8(s) == [k |-> "utf8", s |-> s, h |-> NULL, b |-> <<>>]
Ptr(h) == [k |-> "val", s |-> "", h |-> h, b |-> <<>>]
EndPtr == [k |-> "end", s |-> "", h |-> NULL, b |-> REB_END]

Lit(c) == [tk |-> "lit", name |-> "", cell |-> c]
Word(n) == [tk |-> "word", name |-> n, cell |-> NullCell]

\* The source of the function the tests bind: the n-th Fibonacci number.
FibSrc == "func [n [integer!]] [...]"

RECURSIVE Fib(_)
Fib(n) == IF n <= 1 THEN n ELSE Fib(n - 1) + Fib(n - 2)

\* The scanner, on the source texts the callers and the wrapper use.
Scan(s) ==
    CASE s = "1 + 1" -> <<Lit(IntCell(1)), Word("+"), Lit(IntCell(1))>>
      [] s = "1 / 0" -> <<Lit(IntCell(1)), Word("/"), Lit(IntCell(0))>>
      [] s = "1 +" -> <<Lit(IntCell(1)), Word("+")>>
      [] s = "+" -> <<Word("+")>>
      [] s = "null" -> <<Word("null")>>
      [] s = "make error! {x}" -> <<Word("make error!"), Lit(TextCell(33))>>
      [] s = "{x}" -> <<Lit(TextCell(33))>>
      [] s = "entrap [" -> <<Word("entrap"), Word("[")>>
      [] s = "]" -> <<Word("]")>>
      [] s = "get in" -> <<Word("get"), Word("in")>>
      [] OTHER -> <<Word(s)>>

\* The fragments of a list up to its sentinel.
RECURSIVE UpToEnd(_)
UpToEnd(frags) ==
    IF frags = <<>> \/ Head(frags).k = "end" THEN <<>>
    ELSE <<Head(frags)>> \o UpToEnd(Tail(frags))

HasEnd(frags) == \E i \in 1..Len(frags) : frags[i].k = "end"

RECURSIVE Tokens(_, _)
Tokens(r, frags) ==
    IF frags = <<>> THEN <<>>
    ELSE LET f == Head(frags) IN
         (IF f.k = "utf8" THEN Scan(f.s)
          ELSE IF f.h = NULL THEN <<Lit(NullCell)>>
          ELSE <<Lit(r.heap[f.h].cell)>>) \o Tokens(r, Tail(frags))

\* The outcome of an evaluation: a value, or a raised error.
Val(c) == [raise |-> FALSE, none |-> FALSE, cell |-> c]
Nothing == [raise |-> FALSE, none |-> TRUE, cell |-> NullCell]
Raise(code) == [raise |-> TRUE, none |-> FALSE, cell |-> ErrCell(code)]
ZeroDivide == 1
ScriptError == 2
UserError == 3
Overflow == 4

IsLit(toks, i) == Len(toks) >= i /\ toks[i].tk = "lit"
IsInt(toks, i) == IsLit(toks, i) /\ toks[i].cell.kind = "integer"

Rest(toks, n) == SubSeq(toks, n + 1, Len(toks))

\* Left to right, as one expression: a literal starts a new expression, an
\* infix operator takes the value so far and the next literal, a function
\* word takes the literals that follow it.
RECURSIVE EvalSeq(_, _)
EvalSeq(toks, acc) ==
    IF acc.raise \/ toks = <<>> THEN acc
    ELSE LET t == Head(toks) IN
      IF t.tk = "lit" /\ t.cell.kind = "action" THEN
        \* a function value takes the argument that follows it
        IF ~IsInt(toks, 2) THEN Raise(ScriptError)
        ELSE IF Fib(toks[2].cell.val) > MaxInt THEN Raise(Overflow)
        ELSE EvalSeq(Rest(toks, 2), Val(IntCell(Fib(toks[2].cell.val))))
      ELSE IF t.tk = "lit" THEN EvalSeq(Tail(toks), Val(t.cell))
      ELSE IF t.name = FibSrc THEN EvalSeq(Tail(toks), Val(Cell("action", 0, <<>>)))
      ELSE IF t.name \in {"+", "/"} THEN
        IF acc.none \/ acc.cell.kind # "integer" \/ ~IsInt(toks, 2)
        THEN Raise(ScriptError)
        ELSE IF t.name = "/" THEN
               IF toks[2].cell.val = 0 THEN Raise(ZeroDivide)
               ELSE EvalSeq(Rest(toks, 2),
                            Val(IntCell(acc.cell.val \div toks[2].cell.val)))
        ELSE IF acc.cell.val + toks[2].cell.val > MaxInt THEN Raise(Overflow)
        ELSE EvalSeq(Rest(toks, 2), Val(IntCell(acc.cell.val + toks[2].cell.val)))
      ELSE IF t.name = "null" THEN EvalSeq(Tail(toks), Val(NullCell))
      ELSE IF t.name \in {"error?", "block?"} THEN
        IF ~IsLit(toks, 2) THEN Raise(ScriptError)
        ELSE EvalSeq(Rest(toks, 2),
                     Val(LogicCell(toks[2].cell.kind =
                                     (IF t.name = "error?" THEN "error" ELSE "block"))))
      ELSE IF t.name = "first" THEN
        IF ~IsLit(toks, 2) \/ toks[2].cell.kind # "block" THEN Raise(ScriptError)
        ELSE EvalSeq(Rest(toks, 2), Val(FirstOf(toks[2].cell)))
      ELSE IF t.name = "make error!" THEN
        IF ~IsLit(toks, 2) THEN Raise(ScriptError)
        ELSE EvalSeq(Rest(toks, 2), Val(ErrCell(UserError)))
      ELSE IF t.name = "get" THEN
        \* get in <error> '<field>
        IF Len(toks) >= 4 /\ toks[2] = Word("in") /\ IsLit(toks, 3)
             /\ toks[3].cell.kind = "error" /\ toks[4].tk = "word"
             /\ toks[4].name \in {"'type", "'id", "'message", "'file"}
        THEN EvalSeq(Rest(toks, 4),
                     Val(TextCell(10 * toks[3].cell.val +
                           (CASE toks[4].name = "'type" -> 1
                              [] toks[4].name = "'id" -> 2
                              [] toks[4].name = "'message" -> 3
                              [] OTHER -> 4))))
        ELSE Raise(ScriptError)
      ELSE Raise(ScriptError)

\* entrap [ ... ]: a raised error is returned as an error value, a null
\* result as null, any other result wrapped in a one-element block.
Entrap(o) ==
    IF o.raise THEN Val(o.cell)
    ELSE IF o.none \/ o.cell.kind = "null" THEN Val(NullCell)
    ELSE Val(BlockOf(o.cell))

Eval(toks) ==
    IF Len(toks) >= 3 /\ toks[1] = Word("entrap") /\ toks[2] = Word("[")
         /\ toks[Len(toks)] = Word("]")
    THEN Entrap(EvalSeq(SubSeq(toks, 3, Len(toks) - 1), Nothing))
    ELSE EvalSeq(toks, Nothing)

\* What every variadic entry point does first: read the list up to the
\* sentinel, noting a list without one, a null pointer in it and a handle of
\* another runtime instance, and evaluate it.
RECURSIVE TouchAll(_, _)
TouchAll(r, frags) ==
    IF frags = <<>> THEN r
    ELSE LET f == Head(frags) IN
         TouchAll(IF f.k # "val" THEN r
                  ELSE IF f.h = NULL THEN [r EXCEPT !.nullArg = TRUE]
                  ELSE Touch(r, f.h),
                  Tail(frags))

\* The foreign calls of the operation that is running, in the order they
\* are made: the entry point and the fragment list it is handed.
Logged(r, fn, frags) == [r EXCEPT !.log = Append(@, [fn |-> fn, frags |-> frags])]

Enter(r, fn, frags) ==
    TouchAll(IF HasEnd(frags) THEN Logged(r, fn, frags)
             ELSE [Logged(r, fn, frags) EXCEPT !.noEnd = TRUE],
             UpToEnd(frags))

Outcome(r, frags) == Eval(Tokens(r, UpToEnd(frags)))

\* An error raised outside entrap leaves the runtime as a native fault.
Fault(r) == [r EXCEPT !.fault = TRUE]

\* r is the runtime once the list is read, o the outcome of evaluating it.
ValueOf(r, o) ==
    IF o.raise THEN [rt |-> Fault(r), h |-> NULL] ELSE Alloc(r, o.cell)

DidOf(r, o) ==
    IF o.raise THEN [rt |-> Fault(r), b |-> FALSE]
    ELSE [rt |-> r, b |-> o.cell.kind = "logic" /\ o.cell.val = 1]

ElideOf(r, o) == IF o.raise THEN Fault(r) ELSE r

\* rebUnboxInteger returns an isize.
IntegerOf(r, o) ==
    IF o.raise \/ o.cell.kind # "integer" THEN [rt |-> Fault(r), out |-> 0]
    ELSE [rt |-> r, out |-> ToWidth(o.cell.val, r.isize)]

\* The text of a text cell, by its code.
TextOf(c) ==
    CASE c.kind # "text" -> "?"
      [] c.val = 11 -> "math"
      [] c.val = 12 -> "zero-divide"
      [] c.val = 13 -> "attempt to divide by zero"
      [] c.val = 21 -> "script"
      [] c.val = 22 -> "no-arg"
      [] c.val = 23 -> "is missing its argument"
      [] c.val = 31 -> "user"
      [] c.val = 32 -> "message"
      [] c.val = 33 -> "x"
      [] c.val = 41 -> "math"
      [] c.val = 42 -> "overflow"
      [] c.val = 43 -> "math or number overflow"
      [] OTHER -> "file"

\* The runtime allocates a buffer holding the spelling; buf is the pointer
\* to it.
SpellOf(r, o) ==
    IF o.raise \/ o.cell.kind # "text" THEN [rt |-> Fault(r), buf |-> NULL]
    ELSE [rt |-> [r EXCEPT !.bufs = @ + 1, !.text = TextOf(o.cell)], buf |-> 1]

rebValue(r, frags) == ValueOf(Enter(r, "rebValue", frags), Outcome(r, frags))
rebValueQ(r, frags) == ValueOf(Enter(r, "rebValueQ", frags), Outcome(r, frags))
rebDid(r, frags) == DidOf(Enter(r, "rebDid", frags), Outcome(r, frags))
rebElide(r, frags) == ElideOf(Enter(r, "rebElide", frags), Outcome(r, frags))
rebUnboxInteger(r, frags) ==
    IntegerOf(Enter(r, "rebUnboxInteger", frags), Outcome(r, frags))
\* rebSpell / rebSpellQ: a buffer the caller owns and must rebFree.
rebSpell(r, frags) == SpellOf(Enter(r, "rebSpell", frags), Outcome(r, frags))
rebSpellQ(r, frags) == SpellOf(Enter(r, "rebSpellQ", frags), Outcome(r, frags))

\* rebFree(buf): the buffer is gone; freeing what is not allocated is noted.
Freed(r) ==
    IF r.bufs = 0 THEN [r EXCEPT !.badFree = TRUE]
    ELSE [r EXCEPT !.bufs = @ - 1, !.text = ""]

rebFree(r) == Freed(Logged(r, "rebFree", <<>>))

\* ------------------------------------------------------------- the wrapper
\* struct RebValue { inner, engine }: engine is the number of the runtime
\* instance the producing RebEngine started.
RebValue(e, h) == [inner |-> h, engine |-> e]

\* What a RebError holds: owned strings and a line number, no handle.
NoError ==
    [type_ |-> "", id |-> "", message |-> "", near |-> "", where_ |-> "",
     file |-> "", line |-> 0]

\* The observation of the call that ended last: the operation, how it ended
\* (ok, err, panic, fault, none), the handle of the Value it returned, the
\* handle its first evaluate call returned, the decoded error, an unboxed
\* integer or string, the caller's fragments, their pointers and what the
\* runtime read of them, whether evaluating them raises an error, the number of live
\* handles before the call, and the foreign calls it made.
NoResult(op) ==
    [op |-> op, res |-> "none", h |-> NULL, trapped |-> NULL, err |-> NoError,
     out |-> 0, str |-> "", args |-> <<>>, ptrs |-> <<>>, toks |-> <<>>,
     raised |-> FALSE, before |-> 0, calls |-> <<>>]

Held == UNION {BagToSet(vals[t]) : t \in Threads}

Init ==
    /\ REB_STARTED_UP = FALSE
    /\ pc = [t \in Threads |-> "idle"]
    /\ panicking = [t \in Threads |-> FALSE]
    /\ rt = RtInit
    /\ vals = [t \in Threads |-> EmptyBag]
    /\ last = NoResult("init")

\* A process in which a native fault escaped the runtime runs no further.
Alive(t) == ~rt.fault /\ pc[t] # "dead"

\* Mutant: the result of the test-and-set is ignored.
RebEngine_new_cas_unchecked(t) ==
    /\ Alive(t) /\ ~panicking[t]
    /\ pc[t] \in {"idle", "running"}
    /\ rt.startups + Cardinality({u \in Threads : pc[u] = "new_startup"})
          < MaxEngines
    /\ REB_STARTED_UP' = TRUE
    /\ pc' = [pc EXCEPT ![t] = "new_startup"]
    /\ last' = NoResult("new")
    /\ UNCHANGED <<panicking, rt, vals>>

\* Mutant: rebStartup is called before the flag is tested.
RebEngine_new_cas_startup_first(t) ==
    /\ Alive(t) /\ ~panicking[t]
    /\ pc[t] \in {"idle", "running"}
    /\ \/ REB_STARTED_UP
       \/ rt.startups + Cardinality({u \in Threads : pc[u] = "new_startup"})
             < MaxEngines
    /\ IF REB_STARTED_UP
       THEN /\ REB_STARTED_UP' = TRUE
            /\ rt' = rebStartup(rt)
            /\ IF pc[t] = "idle"
               THEN pc' = [pc EXCEPT ![t] = "dead"] /\ UNCHANGED panicking
               ELSE panicking' = [panicking EXCEPT ![t] = TRUE] /\ UNCHANGED pc
            /\ last' = [NoResult("new") EXCEPT !.res = "panic"]
       ELSE /\ REB_STARTED_UP' = TRUE
            /\ pc' = [pc EXCEPT ![t] = "new_startup"]
            /\ last' = NoResult("new")
            /\ UNCHANGED <<panicking, rt>>
    /\ UNCHANGED vals

\* Mutant: a failing new() stores false into the flag before it panics.
RebEngine_new_cas_clears_flag(t) ==
    /\ Alive(t) /\ ~panicking[t]
    /\ pc[t] \in {"idle", "running"}
    /\ \/ REB_STARTED_UP
       \/ rt.startups + Cardinality({u \in Threads : pc[u] = "new_startup"})
             < MaxEngines
    /\ IF REB_STARTED_UP
       THEN /\ REB_STARTED_UP' = FALSE
            /\ IF pc[t] = "idle"
               THEN pc' = [pc EXCEPT ![t] = "dead"] /\ UNCHANGED panicking
               ELSE panicking' = [panicking EXCEPT ![t] = TRUE] /\ UNCHANGED pc
            /\ last' = [NoResult("new") EXCEPT !.res = "panic"]
       ELSE /\ REB_STARTED_UP' = TRUE
            /\ pc' = [pc EXCEPT ![t] = "new_startup"]
            /\ last' = NoResult("new")
            /\ UNCHANGED panicking
    /\ UNCHANGED <<rt, vals>>

\* compare_and_swap(false, true): returns the previous value.
RebEngine_new_cas(t) ==
    /\ Alive(t) /\ ~panicking[t]
    /\ pc[t] \in {"idle", "running"}
    /\ \/ REB_STARTED_UP
       \/ rt.startups + Cardinality({u \in Threads : pc[u] = "new_startup"})
             < MaxEngines
    /\ IF REB_STARTED_UP
       THEN \* panic!: the caller unwinds, dropping what it holds
            /\ REB_STARTED_UP' = TRUE
            /\ IF pc[t] = "idle"
               THEN pc' = [pc EXCEPT ![t] = "dead"] /\ UNCHANGED panicking
               ELSE panicking' = [panicking EXCEPT ![t] = TRUE] /\ UNCHANGED pc
            /\ last' = [NoResult("new") EXCEPT !.res = "panic"]
       ELSE /\ REB_STARTED_UP' = TRUE
            /\ pc' = [pc EXCEPT ![t] = "new_startup"]
            /\ last' = NoResult("new")
            /\ UNCHANGED panicking
    /\ UNCHANGED <<rt, vals>>

RebEngine_new_startup(t) ==
    /\ Alive(t)
    /\ pc[t] = "new_startup"
    /\ rt' = rebStartup(rt)
    /\ pc' = [pc EXCEPT ![t] = "running"]
    /\ last' = [NoResult("new") EXCEPT !.res = "ok"]
    /\ UNCHANGED <<REB_STARTED_UP, panicking, vals>>

\* Mutant: the Value does not borrow its engine.
EngineUnborrowed_never(t) == TRUE

\* RebValue<'a> borrows the RebEngine for 'a: the engine cannot be dropped
\* (or moved) while a Value produced from it exists.
EngineUnborrowed(t) == vals[t] = EmptyBag

\* Mutant: the flag is cleared before the runtime is shut down.
RebEngine_drop_clear_first(t) ==
    /\ Alive(t)
    /\ pc[t] \in {"running", "forged"}
    /\ EngineUnborrowed(t)
    /\ REB_STARTED_UP' = FALSE
    /\ pc' = [pc EXCEPT ![t] = "drop_swap"]
    /\ last' = NoResult("drop_engine")
    /\ UNCHANGED <<rt, panicking, vals>>

\* Drop for RebEngine, of an Engine from new() or of one written as the
\* literal RebEngine().
RebEngine_drop_shutdown(t) ==
    /\ Alive(t)
    /\ pc[t] \in {"running", "forged"}
    /\ EngineUnborrowed(t)
    /\ rt' = rebShutdown(rt)
    /\ pc' = [pc EXCEPT ![t] = "drop_swap"]
    /\ last' = NoResult("drop_engine")
    /\ UNCHANGED <<REB_STARTED_UP, panicking, vals>>

\* Mutant: the flag is read, not swapped: it stays set.
RebEngine_drop_swap_keeps_flag(t) ==
    /\ Alive(t)
    /\ pc[t] = "drop_swap"
    /\ REB_STARTED_UP' = REB_STARTED_UP
    /\ pc' = [pc EXCEPT ![t] =
                IF ~REB_STARTED_UP \/ panicking[t] THEN "dead" ELSE "idle"]
    /\ panicking' = [panicking EXCEPT ![t] = FALSE]
    /\ last' = [NoResult("drop_engine") EXCEPT
                   !.res = IF REB_STARTED_UP THEN "ok" ELSE "panic"]
    /\ UNCHANGED <<rt, vals>>

\* swap(false): returns the previous value; panic! when it was not set.
RebEngine_drop_swap(t) ==
    /\ Alive(t)
    /\ pc[t] = "drop_swap"
    /\ REB_STARTED_UP' = FALSE
    /\ pc' = [pc EXCEPT ![t] =
                IF ~REB_STARTED_UP \/ panicking[t] THEN "dead" ELSE "idle"]
    /\ panicking' = [panicking EXCEPT ![t] = FALSE]
    /\ last' = [NoResult("drop_engine") EXCEPT
                   !.res = IF REB_STARTED_UP THEN "ok" ELSE "panic"]
    /\ UNCHANGED <<rt, vals>>

\* Drop for RebValue: rebRelease(self.inner).
RebValue_drop(r, v) == rebRelease(r, v.inner)

DropValue(t) ==
    /\ Alive(t)
    /\ \E v \in BagToSet(vals[t]) :
         /\ rt' = RebValue_drop(rt, v)
         /\ vals' = [vals EXCEPT ![t] = @ (-) SetToBag({v})]
         /\ last' = [NoResult("drop_value") EXCEPT !.res = "ok", !.h = v.inner]
    /\ UNCHANGED <<REB_STARTED_UP, pc, panicking>>

\* The thread holds a started engine and may call its methods.
CanCall(t) == Alive(t) /\ pc[t] = "running" /\ ~panicking[t]
Room(t) == BagCardinality(vals[t]) < MaxVals
Self == rt.startups

\* from_raw(self, inner)
from_raw(e, inner) == RebValue(e, inner)

\* void(), blank(), char(v), integer(v), decimal(v): one constructor call,
\* its handle wrapped.
void(r) == rebVoid(r)
blank(r) == rebBlank(r)
char(r, c) == rebChar(r, c)
integer(r, i) == rebInteger(r, i)
decimal(r, d) == rebDecimal(r, d)

Keep(t, op, a) ==
    /\ rt' = a.rt
    /\ vals' = [vals EXCEPT ![t] = @ (+) SetToBag({from_raw(Self, a.h)})]
    /\ last' = [NoResult(op) EXCEPT !.res = "ok", !.h = a.h]
    /\ UNCHANGED <<REB_STARTED_UP, pc, panicking>>

Construct(t) ==
    /\ CanCall(t) /\ Room(t)
    /\ \/ Keep(t, "void", void(rt))
       \/ Keep(t, "blank", blank(rt))
       \/ Keep(t, "char", char(rt, 65))
       \/ \E i \in Ints : Keep(t, "integer", integer(rt, i))
       \/ Keep(t, "decimal", decimal(rt, 0))

\* ------------------------------------------------ fragments (RebCode)
CUtf8_new(s) == [c |-> "CUtf8", s |-> s, v |-> RebValue(0, NULL), i |-> 0]
AsCode(v) == [c |-> "RebValue", s |-> "", v |-> v, i |-> 0]
\* An argument written `&engine.integer(i)`: a Value made for the call and
\* dropped at the end of the caller's statement.
Temp(i) == [c |-> "integer", s |-> "", v |-> RebValue(0, NULL), i |-> i]
\* An argument written `&engine.value1(&fib_str).unwrap()`: the function
\* Value, made for the call likewise.
TempFunc == [c |-> "func", s |-> FibSrc, v |-> RebValue(0, NULL), i |-> 0]

\* RebCode for CUtf8: the buffer's pointer.
CUtf8_as_const_ptr(a) == [ok |-> TRUE, p |-> Utf8(a.s)]
\* RebCode for RebValue: assert!(!self.inner.is_null()), then the handle.
RebValue_as_const_ptr(v) == [ok |-> v.inner # NULL, p |-> Ptr(v.inner)]

as_const_ptr(a) ==
    IF a.c = "CUtf8" THEN CUtf8_as_const_ptr(a) ELSE RebValue_as_const_ptr(a.v)

\* ------------------------------------------------------------ unboxing
\* Mutant: the list is not terminated.
unbox_integer_no_end(r, v) == rebUnboxInteger(r, <<Ptr(v.inner)>>)

unbox_integer(r, v) == rebUnboxInteger(r, <<Ptr(v.inner), EndPtr>>)

\* CStr::from_ptr(c).to_str().unwrap().to_owned(): the bytes of the buffer
\* as they are now; reading a buffer that is not allocated is noted.
CStr_to_owned(r) ==
    [rt |-> IF r.bufs = 0 THEN [r EXCEPT !.badRead = TRUE] ELSE r, out |-> r.text]

Copied(y) == [rt |-> rebFree(y.rt), out |-> y.out]

\* Mutant: the buffer is freed before it is copied.
CopyThenFree_free_first(c) ==
    IF c.rt.fault THEN [rt |-> c.rt, out |-> ""] ELSE CStr_to_owned(rebFree(c.rt))

\* c is what rebSpell returned: copy the buffer into an owned String, then
\* rebFree it.
CopyThenFree(c) ==
    IF c.rt.fault THEN [rt |-> c.rt, out |-> ""] ELSE Copied(CStr_to_owned(c.rt))

unbox_string(r, v) == CopyThenFree(rebSpell(r, <<Ptr(v.inner), EndPtr>>))
unbox_string_q(r, v) == CopyThenFree(rebSpellQ(r, <<Ptr(v.inner), EndPtr>>))

\* ------------------------------------------------------ evaluate family
Res(r, res, h, trapped, err) ==
    [rt |-> r, res |-> res, h |-> h, trapped |-> trapped, err |-> err]

\* The closure y == f(&v) has run; v goes out of scope.
DropAfter(v, y) == [rt |-> RebValue_drop(y.rt, v), out |-> y.out]

\* x is the handle `get in a 'field` returned, wrapped as the Value v.
ApplyTo(x, e, f) ==
    IF x.rt.fault THEN [rt |-> x.rt, out |-> ""]
    ELSE DropAfter(from_raw(e, x.h),
              IF f = "unbox_string_q" THEN unbox_string_q(x.rt, from_raw(e, x.h))
              ELSE unbox_string(x.rt, from_raw(e, x.h)))

\* map_field(a, field, f): f applied to the Value of `get in a 'field`, which
\* is dropped when map_field returns.
map_field(r, e, a, field, f) ==
    ApplyTo(rebValue(r, <<Utf8("get in"), Ptr(a.inner), Utf8(field), EndPtr>>),
            e, f)

\* The fields RebError::from_rebval reads, in the order it reads them.
ErrorFields ==
    <<[name |-> "'type", f |-> "unbox_string_q"],
      [name |-> "'id", f |-> "unbox_string_q"],
      [name |-> "'message", f |-> "unbox_string"],
      [name |-> "'file", f |-> "unbox_string_q"]>>

Prepend(o, d) == [rt |-> d.rt, outs |-> <<o>> \o d.outs]

RECURSIVE MapFields(_, _, _)
NextField(x, v, fs) == Prepend(x.out, MapFields(x.rt, v, fs))
MapFields(r, v, fs) ==
    IF fs = <<>> THEN [rt |-> r, outs |-> <<>>]
    ELSE NextField(map_field(r, v.engine, v, Head(fs).name, Head(fs).f),
                   v, Tail(fs))

MakeError(d) ==
    [rt |-> d.rt,
     err |-> [type_ |-> d.outs[1], id |-> d.outs[2], message |-> d.outs[3],
              near |-> "", where_ |-> "", file |-> d.outs[4], line |-> 0]]

\* RebError::from_rebval(e)
from_rebval(r, v) == MakeError(MapFields(r, v, ErrorFields))

\* Mutant: the temporary Value is not dropped.
ErrAfter_leak(tmp, d) == Res(d.rt, "err", NULL, tmp.inner, d.err)

\* Err(RebError::from_rebval(&RebValue::from_raw(self, v))): the temporary
\* Value tmp is dropped once the error d is decoded.
ErrAfter(tmp, d) == Res(RebValue_drop(d.rt, tmp), "err", NULL, tmp.inner, d.err)
DecodeAndDrop(r, e, h) == ErrAfter(from_raw(e, h), from_rebval(r, from_raw(e, h)))

IsError(r, h) == rebDid(r, <<Utf8("error?"), Ptr(h), EndPtr>>)
IsBlock(r, h) == rebDid(r, <<Utf8("block?"), Ptr(h), EndPtr>>)

LoadChecked(is_error, e, v) ==
    IF is_error.b THEN DecodeAndDrop(is_error.rt, e, v)
    ELSE Res(is_error.rt, "ok", v, v, NoError)

LoadEvaluated(x, e) == LoadChecked(IsError(x.rt, x.h), e, x.h)

load(r, e, code) ==
    LoadEvaluated(rebValueQ(r, <<as_const_ptr(CUtf8_new(code)).p, EndPtr>>), e)

\* Mutant: the outer block is not released.
Unwrapped_leak(inner, trapped) == Res(inner.rt, "ok", inner.h, trapped, NoError)

\* The block arm: inner is `first trapped`; trapped is released.
Unwrapped(inner, trapped) ==
    Res(rebRelease(inner.rt, trapped), "ok", inner.h, trapped, NoError)

\* Mutant: the block is returned as it is.
BlockChecked_as_is(is_block, trapped) ==
    Res(is_block.rt, "ok", trapped, trapped, NoError)

\* The non-error arm of value1 and value2: a block is unwrapped to its first
\* element, anything else is returned as it is.
BlockChecked(is_block, trapped) ==
    IF is_block.b
    THEN Unwrapped(rebValue(is_block.rt, <<Utf8("first"), Ptr(trapped), EndPtr>>),
                   trapped)
    ELSE Res(is_block.rt, "ok", trapped, trapped, NoError)

\* Mutant: the error check is skipped.
Value1Checked_no_error_arm(is_error, e, trapped) ==
    BlockChecked(IsBlock(is_error.rt, trapped), trapped)

Value1Checked(is_error, e, trapped) ==
    IF is_error.b THEN DecodeAndDrop(is_error.rt, e, trapped)
    ELSE BlockChecked(IsBlock(is_error.rt, trapped), trapped)

Value1Trapped(x, e) == Value1Checked(IsError(x.rt, x.h), e, x.h)

\* Mutant: the fragment is evaluated without the entrap wrapper.
Value1Ptr_no_entrap(r, e, p) ==
    IF ~p.ok THEN Res(r, "panic", NULL, NULL, NoError)
    ELSE Value1Trapped(rebValue(r, <<p.p, EndPtr>>), e)

Value1Ptr(r, e, p) ==
    IF ~p.ok THEN Res(r, "panic", NULL, NULL, NoError)
    ELSE Value1Trapped(rebValue(r, <<Utf8("entrap ["), p.p, Utf8("]"), EndPtr>>), e)

value1(r, e, a) == Value1Ptr(r, e, as_const_ptr(a))

\* Mutant: value2 decodes the error as value1 does.
Value2Checked_decoded(is_error, trapped) ==
    IF is_error.b THEN DecodeAndDrop(is_error.rt, rt.startups, trapped)
    ELSE BlockChecked(IsBlock(is_error.rt, trapped), trapped)

Value2Checked(is_error, trapped) ==
    IF is_error.b THEN Res(is_error.rt, "err", trapped, trapped, NoError)
    ELSE BlockChecked(IsBlock(is_error.rt, trapped), trapped)

Value2Trapped(x) == Value2Checked(IsError(x.rt, x.h), x.h)

\* Mutant: the two fragments are passed in the other order.
Value2Ptr_swapped(r, p, q) ==
    IF ~p.ok \/ ~q.ok THEN Res(r, "panic", NULL, NULL, NoError)
    ELSE Value2Trapped(
            rebValue(r, <<Utf8("entrap ["), q.p, p.p, Utf8("]"), EndPtr>>))

Value2Ptr(r, p, q) ==
    IF ~p.ok \/ ~q.ok THEN Res(r, "panic", NULL, NULL, NoError)
    ELSE Value2Trapped(
            rebValue(r, <<Utf8("entrap ["), p.p, q.p, Utf8("]"), EndPtr>>))

value2(r, e, a, b) == Value2Ptr(r, as_const_ptr(a), as_const_ptr(b))

Value3Raw(x) == Res(x.rt, "ok", x.h, x.h, NoError)

\* Mutant: value3 evaluates under entrap as value2 does.
Value3Ptr_entrap(r, p, q, s) ==
    IF ~p.ok \/ ~q.ok \/ ~s.ok THEN Res(r, "panic", NULL, NULL, NoError)
    ELSE Value2Trapped(
            rebValue(r, <<Utf8("entrap ["), p.p, q.p, s.p, Utf8("]"), EndPtr>>))

Value3Ptr(r, p, q, s) ==
    IF ~p.ok \/ ~q.ok \/ ~s.ok THEN Res(r, "panic", NULL, NULL, NoError)
    ELSE Value3Raw(rebValue(r, <<p.p, q.p, s.p, EndPtr>>))

value3(r, e, a, b, c) ==
    Value3Ptr(r, as_const_ptr(a), as_const_ptr(b), as_const_ptr(c))

ElidePtr(r, p) ==
    IF ~p.ok THEN Res(r, "panic", NULL, NULL, NoError)
    ELSE Res(rebElide(r, <<p.p, EndPtr>>), "none", NULL, NULL, NoError)

elide(r, e, a) == ElidePtr(r, as_const_ptr(a))

\* --------------------------------------------------------------- callers
CallerTexts == {"1 + 1", "1 / 0", "1 +", "+", "null", "make error! {x}", "{x}"}

\* The fragments thread t can pass: source text, a Value it holds, or a
\* Value it makes for the call.
Operands(t) ==
    {AsCode(v) : v \in BagToSet(vals[t])} \cup {Temp(i) : i \in Ints}

Codes(t) == {CUtf8_new(s) : s \in CallerTexts} \cup Operands(t)

\* The log is of one operation: it starts empty.
Unlogged(r) == [r EXCEPT !.log = <<>>]

RECURSIVE PtrsOf(_)
PtrsOf(args) ==
    IF args = <<>> THEN <<>>
    ELSE <<as_const_ptr(Head(args)).p>> \o PtrsOf(Tail(args))

\* The caller's statement evaluates its arguments left to right, making the
\* temporary Values, ...
RECURSIVE Materialize(_, _, _)
MatCons(a, m) == [rt |-> m.rt, codes |-> <<a>> \o m.codes, temps |-> m.temps]
MatTemp(v, m) ==
    [rt |-> m.rt, codes |-> <<AsCode(v)>> \o m.codes, temps |-> <<v>> \o m.temps]
MatInteger(x, e, rest) ==
    MatTemp(from_raw(e, x.h), Materialize(Unlogged(x.rt), e, rest))
Materialize(r, e, args) ==
    IF args = <<>> THEN [rt |-> r, codes |-> <<>>, temps |-> <<>>]
    ELSE IF Head(args).c = "integer"
         THEN MatInteger(integer(r, Head(args).i), e, Tail(args))
    ELSE IF Head(args).c = "func"
         THEN MatInteger(value1(r, e, CUtf8_new(Head(args).s)), e, Tail(args))
         ELSE MatCons(Head(args), Materialize(r, e, Tail(args)))

\* ... makes the call, ...
Invoke(op, r, e, codes) ==
    CASE op = "load" -> load(r, e, codes[1].s)
      [] op = "value1" -> value1(r, e, codes[1])
      [] op = "value2" -> value2(r, e, codes[1], codes[2])
      [] op = "value3" -> value3(r, e, codes[1], codes[2], codes[3])
      [] OTHER -> elide(r, e, codes[1])

\* ... and drops the temporaries, last made first, when it ends (or unwinds).
RECURSIVE DropAll(_, _)
DropAll(r, temps) ==
    IF temps = <<>> THEN r
    ELSE RebValue_drop(DropAll(r, Tail(temps)), Head(temps))

\* x is what the call returned; ptrs are the pointers of the caller's
\* fragments, toks what the runtime read of them, and raised whether
\* evaluating them by themselves raises.
EndStatement(x, temps, ptrs, toks) ==
    [x EXCEPT !.rt = DropAll(x.rt, temps)] @@
    [ptrs |-> ptrs, toks |-> toks,
     raised |-> x.res # "panic" /\ Eval(toks).raise]

Called(op, e, m) ==
    EndStatement(Invoke(op, m.rt, e, m.codes), m.temps,
                 PtrsOf(m.codes), Tokens(m.rt, PtrsOf(m.codes)))

Statement(op, r, e, args) == Called(op, e, Materialize(r, e, args))

Keeps(op, x) ==
    ~x.rt.fault /\ (x.res = "ok" \/ (x.res = "err" /\ op = "value2"))

\* The statement ends with x: the caller keeps the Value it was given (the
\* Ok value, or value2's Err value); a panic starts unwinding; a native
\* fault ends the process.
Finish(t, op, args, x) ==
    /\ Keeps(op, x) => Room(t)
    /\ rt' = Unlogged(x.rt)
    /\ vals' = [vals EXCEPT ![t] =
                  IF Keeps(op, x) THEN @ (+) SetToBag({from_raw(Self, x.h)})
                  ELSE @]
    /\ panicking' = [panicking EXCEPT ![t] = (x.res = "panic")]
    /\ last' = [NoResult(op) EXCEPT
                  !.res = IF x.rt.fault THEN "fault" ELSE x.res,
                  !.h = x.h, !.trapped = x.trapped, !.err = x.err,
                  !.args = IF op = "elide" THEN <<>> ELSE args,
                  !.ptrs = IF op = "elide" THEN <<>> ELSE x.ptrs,
                  !.toks = IF op = "elide" THEN <<>> ELSE x.toks,
                  !.raised = x.raised,
                  !.before = Cardinality(LiveHandles(rt)),
                  !.calls = x.rt.log]
    /\ UNCHANGED <<REB_STARTED_UP, pc>>

Call(t, op, args) == Finish(t, op, args, Statement(op, rt, Self, args))

Load(t) ==
    /\ CanCall(t)
    /\ \E s \in CallerTexts : Call(t, "load", <<CUtf8_new(s)>>)

Value1(t) ==
    /\ CanCall(t)
    /\ \E a \in Codes(t) : Call(t, "value1", <<a>>)

\* The two fragments of a value2 call: any fragment and an operand, or the
\* function and its argument.
Pairs(t) ==
    {<<a, b>> : a \in Codes(t), b \in Operands(t) \cup {CUtf8_new("null")}}
    \cup {<<TempFunc, Temp(i)>> : i \in 0..MaxInt}

Value2(t) ==
    /\ CanCall(t)
    /\ \E ab \in Pairs(t) : Call(t, "value2", ab)

\* The three fragments of a value3 call: an infix expression of two
\* operands, an operand between the fragments of entrap, a fragment that
\* yields an error value.
Triples(t) ==
    {<<a, CUtf8_new("+"), c>> : a, c \in Operands(t) \cup {CUtf8_new("null")}}
    \cup {<<CUtf8_new("entrap ["), a, CUtf8_new("]")>> : a \in Operands(t)}
    \cup {<<CUtf8_new("null"), CUtf8_new("null"), CUtf8_new("make error! {x}")>>}

Value3(t) ==
    /\ CanCall(t)
    /\ \E abc \in Triples(t) : Call(t, "value3", abc)

Elide(t) ==
    /\ CanCall(t)
    /\ \E a \in Codes(t) : Call(t, "elide", <<a>>)

Observe(t, op, v, x) ==
    /\ rt' = Unlogged(x.rt)
    /\ last' = [NoResult(op) EXCEPT
                  !.res = IF x.rt.fault THEN "fault" ELSE "ok",
                  !.out = IF op = "unbox_integer" THEN x.out ELSE 0,
                  !.str = IF op = "unbox_integer" THEN "" ELSE x.out,
                  !.h = v.inner,
                  !.before = Cardinality(LiveHandles(rt)),
                  !.calls = x.rt.log]
    /\ UNCHANGED <<REB_STARTED_UP, pc, panicking, vals>>

MapField(t) ==
    /\ CanCall(t)
    /\ \E v \in BagToSet(vals[t]) :
         \/ Observe(t, "map_field", v,
                    map_field(rt, Self, v, "'type", "unbox_string_q"))
         \/ Observe(t, "map_field", v,
                    map_field(rt, Self, v, "'message", "unbox_string"))

UnboxInteger(t) ==
    /\ CanCall(t)
    /\ \E v \in BagToSet(vals[t]) :
         Observe(t, "unbox_integer", v, unbox_integer(rt, v))

UnboxString(t) ==
    /\ CanCall(t)
    /\ \E v \in BagToSet(vals[t]) :
         \/ Observe(t, "unbox_string", v, unbox_string(rt, v))
         \/ Observe(t, "unbox_string_q", v, unbox_string_q(rt, v))

Next ==
    \E t \in Threads :
       \/ RebEngine_new_cas(t)
       \/ RebEngine_new_startup(t)
       \/ RebEngine_drop_shutdown(t)
       \/ RebEngine_drop_swap(t)
       \/ DropValue(t)
       \/ Construct(t)
       \/ Load(t)
       \/ Value1(t)
       \/ Value2(t)
       \/ Value3(t)
       \/ Elide(t)
       \/ MapField(t)
       \/ UnboxInteger(t)
       \/ UnboxString(t)

Spec == Init /\ [][Next]_vars

\* ------------------------------------------------- the literal RebEngine()
\* pub struct RebEngine (): the struct has no private field, so any code can
\* write the literal RebEngine() and holds an Engine that new() never gave
\* out; dropping it runs Drop for RebEngine like any other.
RebEngine_literal(t) ==
    /\ Alive(t) /\ ~panicking[t]
    /\ pc[t] = "idle"
    /\ rt.shutdowns + Cardinality({u \in Threads : pc[u] \in {"forged", "drop_swap"}})
          < MaxEngines
    /\ pc' = [pc EXCEPT ![t] = "forged"]
    /\ last' = NoResult("literal")
    /\ UNCHANGED <<REB_STARTED_UP, panicking, rt, vals>>

NextForged ==
    \E t \in Threads :
       \/ RebEngine_literal(t)
       \/ RebEngine_new_cas(t)
       \/ RebEngine_new_startup(t)
       \/ RebEngine_drop_shutdown(t)
       \/ RebEngine_drop_swap(t)

SpecForged == Init /\ [][NextForged]_vars

\* ------------------------------------------- integer(i).unbox_integer()
\* An Engine is running on thread 1, in a build for either pointer width;
\* the thread makes integer Values of any i64, unboxes and drops them.
InitUnbox ==
    /\ REB_STARTED_UP = TRUE
    /\ pc = [t \in Threads |-> IF t = 1 THEN "running" ELSE "idle"]
    /\ panicking = [t \in Threads |-> FALSE]
    /\ \E b \in IsizeBits : rt = [rebStartup(RtInit) EXCEPT !.isize = b]
    /\ vals = [t \in Threads |-> EmptyBag]
    /\ last = [NoResult("new") EXCEPT !.res = "ok"]

Integer(t) ==
    /\ CanCall(t) /\ Room(t)
    /\ \E i \in I64 : Keep(t, "integer", integer(rt, i))

NextUnbox == \E t \in Threads : Integer(t) \/ UnboxInteger(t) \/ DropValue(t)

SpecUnbox == InitUnbox /\ [][NextUnbox]_vars

\* ------------------------------------------------------------ properties
\* The threads that hold an Engine: from the successful test-and-set of
\* new() until the swap of drop clears the flag.
EngineHolders == {t \in Threads : pc[t] \in {"new_startup", "running", "drop_swap"}}

HeldHandles == {v.inner : v \in Held} \ {NULL}

CellOf(h) == IF h = NULL THEN NullCell ELSE rt.heap[h].cell

\* What evaluating the caller's fragments of the last call yields.
LastOutcome == EvalSeq(last.toks, Nothing)

\* C1: at most one Engine obtained from new() is live at any time, whatever
\* the interleaving of new() calls and Engine drops.
C1_AtMostOneEngine == Cardinality(EngineHolders) <= 1

\* A second Engine lifetime is running while another thread's new() has
\* failed.
C1_Witness ==
    /\ \E t, u \in Threads : t # u /\ pc[t] = "running" /\ pc[u] = "dead"
    /\ rt.startups = 2
    /\ Cardinality(EngineHolders) = 1

\* C2: a construction succeeds only from a clear flag with no Engine live;
\* a new() made while an Engine is live panics, calls neither startup nor
\* shutdown, leaves the flag set and the live Engine live.
C2_Step ==
    /\ (last'.op = "new" /\ last'.res = "panic") =>
          /\ REB_STARTED_UP /\ REB_STARTED_UP'
          /\ EngineHolders # {}
          /\ EngineHolders' = EngineHolders
          /\ rt' = rt
          /\ vals' = vals
    /\ (EngineHolders' \ EngineHolders # {}) =>
          /\ ~REB_STARTED_UP /\ REB_STARTED_UP'
          /\ EngineHolders = {}
          /\ rt' = rt

C2_FailedNewHasNoEffect == [][C2_Step]_vars

C2_Witness ==
    /\ last.op = "new" /\ last.res = "panic"
    /\ REB_STARTED_UP /\ rt.up /\ rt.startups = 1 /\ rt.shutdowns = 0
    /\ \E t \in Threads : pc[t] = "running" /\ ~panicking[t]

\* C5: startup and shutdown calls alternate, beginning with startup; an
\* Engine is started once and shut down once, the shutdown call comes before
\* the flag is cleared, and no startup comes between a startup and the return
\* of its shutdown.
C5_State ==
    /\ rt.startups - rt.shutdowns \in {0, 1}
    /\ rt.up = (rt.startups = rt.shutdowns + 1)
    /\ \A t \in Threads :
         /\ pc[t] = "new_startup" => ~rt.up /\ REB_STARTED_UP
         /\ pc[t] = "running" => rt.up /\ REB_STARTED_UP
         /\ pc[t] = "drop_swap" => ~rt.up /\ REB_STARTED_UP
    /\ ~REB_STARTED_UP => ~rt.up

C5_Step ==
    /\ rt'.startups = rt.startups + 1 <=>
          \E t \in Threads : pc[t] = "new_startup" /\ pc'[t] = "running"
    /\ rt'.shutdowns = rt.shutdowns + 1 <=>
          \E t \in Threads : pc[t] = "running" /\ pc'[t] = "drop_swap"
    /\ rt'.startups \in {rt.startups, rt.startups + 1}
    /\ rt'.shutdowns \in {rt.shutdowns, rt.shutdowns + 1}
    /\ (REB_STARTED_UP /\ ~REB_STARTED_UP') => rt.shutdowns = rt.startups

C5_StartupShutdownAlternate == []C5_State /\ [][C5_Step]_vars

C5_Witness ==
    /\ rt.startups = 2 /\ rt.shutdowns = 2
    /\ \E t \in Threads : pc[t] = "drop_swap"
    /\ REB_STARTED_UP

\* C3: every handle an operation obtained from the runtime is released
\* exactly once: none is released twice, and the live handles are exactly
\* those of the Values still held, each held by one Value, so none is left
\* once every returned Value has been dropped.
C3_ReleasedExactlyOnce ==
    /\ ~rt.badRelease
    /\ LiveHandles(rt) = HeldHandles
    /\ \A t \in Threads : \A v \in BagToSet(vals[t]) :
          v.inner # NULL => CopiesIn(v, vals[t]) = 1
    /\ \A t, u \in Threads : \A v \in BagToSet(vals[t]) : \A w \in BagToSet(vals[u]) :
          (v.inner = w.inner /\ v.inner # NULL) => (t = u /\ v = w)

\* value1 of a temporary Value unwrapped a block: the temporary and the outer
\* block are released, the inner handle is the one held.
C3_Witness ==
    /\ last.op = "value1" /\ last.res = "ok"
    /\ last.trapped # NULL /\ last.h # NULL /\ last.h # last.trapped
    /\ last.trapped \notin LiveHandles(rt)
    /\ last.args = <<Temp(1)>>
    /\ LiveHandles(rt) = {last.h}

\* C4: a Value exists, and its handle reaches the runtime, only while the
\* Engine that produced it is the started runtime instance.
C4_ValueWithinItsEngine ==
    /\ ~rt.stale
    /\ \A v \in Held : rt.up /\ v.engine = rt.startups

\* A Value of the second Engine is unboxed.
C4_Witness ==
    /\ last.op = "unbox_integer" /\ last.res = "ok" /\ last.h # NULL
    /\ rt.startups = 2 /\ rt.up
    /\ \E v \in Held : v.inner = last.h /\ v.engine = 2

\* C6: value1 classifies the result r of evaluating `entrap [ fragment ]`:
\* an error gives an error result; a block gives Ok of its element 0, and
\* the block is released; anything else gives Ok of r itself.  So a fragment
\* that raises gives an error result, one that yields a value gives it.
C6_Trapped == Entrap(LastOutcome).cell

C6_Value1Classifies ==
    (last.op = "value1" /\ last.res \in {"ok", "err"}) =>
       /\ C6_Trapped.kind = "error" => last.res = "err" /\ last.h = NULL
       /\ C6_Trapped.kind = "block" =>
             /\ last.res = "ok"
             /\ last.h # last.trapped
             /\ last.h \in LiveHandles(rt)
             /\ CellOf(last.h) = FirstOf(C6_Trapped)
             /\ last.trapped \notin LiveHandles(rt)
       /\ C6_Trapped.kind \notin {"error", "block"} =>
             /\ last.res = "ok"
             /\ last.h = last.trapped
             /\ CellOf(last.h) = C6_Trapped
       /\ last.raised => last.res = "err"
       /\ (~last.raised /\ LastOutcome.cell.kind # "null") =>
             last.res = "ok" /\ CellOf(last.h) = LastOutcome.cell

\* value1 of "1 + 1": Ok of the integer 2, not of the block holding it.
C6_Witness ==
    /\ last.op = "value1" /\ last.res = "ok"
    /\ last.args = <<CUtf8_new("1 + 1")>>
    /\ CellOf(last.h) = IntCell(2)
    /\ last.h # last.trapped

\* C7 as stated: in load, value1, value2, value3 and elide, an error the
\* fragments raise comes back as an error result, never as a native fault.
C7_AllTrapped ==
    (last.op \in {"load", "value1", "value2", "value3", "elide"} /\ last.raised) =>
       last.res = "err" /\ ~rt.fault

\* C7 amended: in value1 and value2, which evaluate under entrap, an error
\* the fragments raise comes back as an error result, never as a fault.
C7_EntrapTraps ==
    (last.op \in {"value1", "value2"} /\ last.raised) =>
       last.res = "err" /\ ~rt.fault

C7_Witness ==
    /\ last.op = "value1" /\ last.raised /\ last.res = "err"
    /\ last.args = <<CUtf8_new("1 / 0")>>
    /\ last.err.id = "zero-divide"

\* C8: for a source-text fragment whose evaluation produces no error,
\* value1 returns Ok of a Value that unboxes to what the Value load returns
\* for the same fragment unboxes to.
C8_Unboxed(r, h) == unbox_integer(r, from_raw(r.startups, h))

C8_Loaded == load(rt, rt.startups, last.args[1].s)

C8_Value1EqualsLoad ==
    (/\ last.op = "value1" /\ last.res # "panic"
     /\ last.args[1].c = "CUtf8"
     /\ ~LastOutcome.raise /\ LastOutcome.cell.kind # "error") =>
       /\ last.res = "ok"
       /\ C8_Loaded.res = "ok" /\ ~C8_Loaded.rt.fault
       /\ C8_Unboxed(rt, last.h).out = C8_Unboxed(C8_Loaded.rt, C8_Loaded.h).out
       /\ C8_Unboxed(rt, last.h).rt.fault
             = C8_Unboxed(C8_Loaded.rt, C8_Loaded.h).rt.fault

C8_Witness ==
    /\ last.op = "value1" /\ last.res = "ok"
    /\ last.args = <<CUtf8_new("1 + 1")>>
    /\ C8_Unboxed(rt, last.h).out = 2
    /\ ~C8_Unboxed(rt, last.h).rt.fault
    /\ C8_Unboxed(C8_Loaded.rt, C8_Loaded.h).out = 2

\* C9: after value1 or load returned an error result, the error holds no
\* handle, and the error value and the four field values fetched from it are
\* released: as many handles are live as before the call.
C9_ErrorHoldsNothing ==
    (last.op \in {"value1", "load"} /\ last.res = "err") =>
       /\ last.h = NULL
       /\ last.trapped # NULL /\ last.trapped \notin LiveHandles(rt)
       /\ Cardinality(LiveHandles(rt)) = last.before
       /\ LiveHandles(rt) = HeldHandles
       /\ rt.bufs = 0

\* load of a fragment that yields an error value, with a Value held.
C9_Witness ==
    /\ last.op = "load" /\ last.res = "err"
    /\ last.err.type_ = "user" /\ last.err.message = "x"
    /\ last.before = 1 /\ Cardinality(LiveHandles(rt)) = 1

\* C10: when the trapped result is an error, value2 returns a Value around
\* that very handle: nothing is decoded, the handle is still live on return
\* and is released when the returned Value is dropped.
C10_Value2RawError ==
    /\ (last.op = "value2" /\ last.res = "err") =>
          /\ last.h # NULL /\ last.h = last.trapped
          /\ last.h \in LiveHandles(rt)
          /\ CellOf(last.h).kind = "error"
          /\ last.err = NoError
          /\ Cardinality(LiveHandles(rt)) = last.before + 1
          /\ \E t \in Threads : CopiesIn(from_raw(rt.startups, last.h), vals[t]) = 1
    /\ (last.op = "value2" /\ last.res = "ok") =>
          CellOf(last.h) = (IF Entrap(LastOutcome).cell.kind = "block"
                            THEN FirstOf(Entrap(LastOutcome).cell)
                            ELSE Entrap(LastOutcome).cell)
    /\ (last.op = "drop_value" /\ last.h # NULL) =>
          last.h \notin LiveHandles(rt) /\ ~rt.badRelease

C10_Witness ==
    /\ last.op = "value2" /\ last.res = "err"
    /\ CellOf(last.h) = ErrCell(ZeroDivide)
    /\ last.h \in HeldHandles

\* The Value the last call returned is held by a thread.
LastHeld == \E t \in Threads : CopiesIn(from_raw(rt.startups, last.h), vals[t]) >= 1

\* C11: value3 makes one foreign call, an evaluate call on the caller's
\* three fragments and the sentinel (no entrap fragments, no error? or
\* block? call), and returns the handle it got wrapped as a Value, whatever
\* it is: an error value and a one-element block too.
C11_Value3Raw ==
    (last.op = "value3" /\ last.res # "panic") =>
       /\ Len(last.calls) = 1
       /\ last.calls[1].fn = "rebValue"
       /\ last.calls[1].frags = last.ptrs \o <<EndPtr>>
       /\ last.err = NoError
       /\ last.res \in {"ok", "fault"}
       /\ last.res = "fault" <=> Eval(last.toks).raise
       /\ last.res = "ok" =>
             /\ last.h = last.trapped
             /\ LastHeld
             /\ CellOf(last.h) = Eval(last.toks).cell

\* value3 of an operand between the fragments of entrap returns the
\* one-element block itself.
C11_Witness ==
    /\ last.op = "value3" /\ last.res = "ok"
    /\ last.args = <<CUtf8_new("entrap ["), Temp(1), CUtf8_new("]")>>
    /\ CellOf(last.h) = BlockOf(IntCell(1))
    /\ LastHeld

\* C12: the fragment list of every variadic foreign call ends with the
\* two-byte sentinel, and the sentinel is nowhere earlier in the list.
C12_Variadic == {"rebValue", "rebValueQ", "rebDid", "rebElide",
                 "rebUnboxInteger", "rebSpell", "rebSpellQ"}

C12_SentinelLast ==
    /\ ~rt.noEnd
    /\ \A i \in DOMAIN last.calls :
          last.calls[i].fn \in C12_Variadic =>
             /\ last.calls[i].frags # <<>>
             /\ last.calls[i].frags[Len(last.calls[i].frags)].k = "end"
             /\ last.calls[i].frags[Len(last.calls[i].frags)].b = <<128, 0>>
             /\ \A j \in 1..(Len(last.calls[i].frags) - 1) :
                   /\ last.calls[i].frags[j].k # "end"
                   /\ last.calls[i].frags[j].b # <<128, 0>>

\* An integer Value is unboxed: one call, the handle and the sentinel.
C12_Witness ==
    /\ last.op = "unbox_integer" /\ last.res = "ok" /\ last.out = 1
    /\ last.calls = <<[fn |-> "rebUnboxInteger", frags |-> <<Ptr(last.h), EndPtr>>]>>

\* C13: the caller's fragments of a value2 or value3 call reach the
\* evaluator in one evaluate call, in the caller's order and next to each
\* other (for value2 between `entrap [` and `]`); no later call of the
\* operation carries them; the result is that of the composed expression, so
\* a function Value followed by an argument Value gives the function's
\* result for the argument.
C13_Composed(toks) == Entrap(EvalSeq(toks, Nothing)).cell

C13_OneExpression ==
    /\ (last.op = "value2" /\ last.res # "panic") =>
          /\ last.calls[1].fn = "rebValue"
          /\ last.calls[1].frags =
                <<Utf8("entrap [")>> \o last.ptrs \o <<Utf8("]"), EndPtr>>
          /\ \A i \in 2..Len(last.calls) : \A j \in DOMAIN last.calls[i].frags :
                \A k \in DOMAIN last.ptrs : last.calls[i].frags[j] # last.ptrs[k]
          /\ last.res = "ok" =>
                CellOf(last.h) = (IF C13_Composed(last.toks).kind = "block"
                                  THEN FirstOf(C13_Composed(last.toks))
                                  ELSE C13_Composed(last.toks))
          /\ last.res = "err" => CellOf(last.h) = C13_Composed(last.toks)
          /\ (\E i \in 0..MaxInt : last.args = <<TempFunc, Temp(i)>>) =>
                last.res = "ok" /\ CellOf(last.h) = IntCell(Fib(last.args[2].i))
    /\ (last.op = "value3" /\ last.res # "panic") =>
          /\ last.calls[1].fn = "rebValue"
          /\ last.calls[1].frags = last.ptrs \o <<EndPtr>>
          /\ Len(last.calls) = 1
          /\ (last.args[2] = CUtf8_new("+") /\ last.res = "ok") =>
                /\ last.toks[1].cell.kind = "integer"
                /\ last.toks[3].cell.kind = "integer"
                /\ CellOf(last.h) =
                      IntCell(last.toks[1].cell.val + last.toks[3].cell.val)

\* The function applied to 2 gives 1: neither the function nor the argument
\* evaluated by itself.
C13_Witness ==
    /\ last.op = "value2" /\ last.res = "ok"
    /\ last.args = <<TempFunc, Temp(2)>>
    /\ CellOf(last.h) = IntCell(1)
    /\ LastHeld

\* C14: integer(i).unbox_integer() = i for every i64 i: the unboxed result
\* is the integer the Value was made from.
C14_RoundTrip ==
    (/\ last.op = "unbox_integer" /\ last.res = "ok"
     /\ CellOf(last.h).kind = "integer") =>
       last.out = CellOf(last.h).val

\* C15: a drop of an Engine that finds the started flag clear invokes no
\* shutdown of the runtime, fails fatally, and leaves the flag clear.
C15_Step ==
    \A t \in Threads :
       /\ (/\ pc[t] \in {"running", "forged"} /\ pc'[t] = "drop_swap"
           /\ ~REB_STARTED_UP) =>
             rt'.shutdowns = rt.shutdowns
       /\ (pc[t] = "drop_swap" /\ pc'[t] # "drop_swap" /\ ~REB_STARTED_UP) =>
             /\ last'.op = "drop_engine" /\ last'.res = "panic"
             /\ ~REB_STARTED_UP'
             /\ pc'[t] = "dead"

C15_FatalWithoutShutdown == [][C15_Step]_vars

\* C16: a null handle of a Value never reaches the runtime as a fragment:
\* in the call an operation makes on the handles of Values (the caller's
\* fragments, or the Value it is a method of), every handle is non-null.
C16_NullNeverPassed ==
    last.calls # <<>> =>
       \A j \in DOMAIN last.calls[1].frags :
          last.calls[1].frags[j].k = "val" => last.calls[1].frags[j].h # NULL

\* C17: unbox_string and unbox_string_q obtain one buffer from the runtime,
\* copy it while it is allocated and free it once before returning; the
\* string returned is the buffer's content; the Value keeps its handle, which
\* stays live.  The same holds of every use of them inside another
\* operation: each spell call is followed at once by the free of its buffer.
C17_State ==
    /\ ~rt.badRead /\ ~rt.badFree
    /\ ~rt.fault => rt.bufs = 0 /\ rt.text = ""

C17_CopyThenFree ==
    /\ C17_State
    /\ last.res # "fault" =>
          \A i \in DOMAIN last.calls :
             /\ last.calls[i].fn \in {"rebSpell", "rebSpellQ"} =>
                   i < Len(last.calls) /\ last.calls[i + 1].fn = "rebFree"
             /\ last.calls[i].fn = "rebFree" =>
                   i > 1 /\ last.calls[i - 1].fn \in {"rebSpell", "rebSpellQ"}
    /\ (last.op \in {"unbox_string", "unbox_string_q"} /\ last.res = "ok") =>
          /\ last.calls =
                <<[fn |-> IF last.op = "unbox_string" THEN "rebSpell" ELSE "rebSpellQ",
                   frags |-> <<Ptr(last.h), EndPtr>>],
                  [fn |-> "rebFree", frags |-> <<>>]>>
          /\ last.str = TextOf(CellOf(last.h))
          /\ last.h \in LiveHandles(rt)
          /\ LastHeld
          /\ Cardinality(LiveHandles(rt)) = last.before

\* The text Value {x} is unboxed to the string x.
C17_Witness ==
    /\ last.op = "unbox_string" /\ last.res = "ok"
    /\ last.str = "x"
    /\ CellOf(last.h) = TextCell(33)
    /\ rt.bufs = 0

\* C18: with Engines created through new() only, the flag is set whenever an
\* Engine exists, only the drop of an existing Engine clears it, and no drop
\* finds it clear: the fatal branch of the drop is never taken.
C18_State ==
    /\ EngineHolders # {} => REB_STARTED_UP
    /\ \A t \in Threads : pc[t] = "drop_swap" => REB_STARTED_UP
    /\ ~(last.op = "drop_engine" /\ last.res = "panic")

C18_Step ==
    (REB_STARTED_UP /\ ~REB_STARTED_UP') =>
       \E t \in Threads :
          /\ pc[t] = "drop_swap" /\ pc'[t] \in {"idle", "dead"}
          /\ EngineHolders = {t} /\ EngineHolders' = {}
          /\ last'.op = "drop_engine" /\ last'.res = "ok"

C18_FlagSetWhileEngine == []C18_State /\ [][C18_Step]_vars

\* The drop of an Engine has completed: the flag is clear, no Engine exists.
C18_Witness ==
    /\ last.op = "drop_engine" /\ last.res = "ok"
    /\ ~REB_STARTED_UP /\ EngineHolders = {}
    /\ rt.shutdowns = 1 /\ ~rt.up

\* C19: the gate is reusable.  A completed drop leaves the flag clear and
\* the runtime down; a new() that finds the flag clear succeeds, on whatever
\* thread and after however many cycles and failed new() calls, and starts
\* the runtime again; a new() fails only while an Engine exists.
C19_State ==
    ~REB_STARTED_UP => EngineHolders = {} /\ ~rt.up /\ rt.startups = rt.shutdowns

C19_Step ==
    \A t \in Threads :
       /\ (pc[t] = "drop_swap" /\ pc'[t] # "drop_swap") =>
             ~REB_STARTED_UP' /\ EngineHolders' = {}
       /\ (/\ ~REB_STARTED_UP
           /\ last'.op = "new"
           /\ pc'[t] # pc[t] \/ panicking'[t] # panicking[t]) =>
             /\ pc'[t] = "new_startup" /\ REB_STARTED_UP'
             /\ last'.res # "panic" /\ ~panicking'[t]
       /\ (pc[t] = "new_startup" /\ pc'[t] # "new_startup") =>
             /\ pc'[t] = "running"
             /\ rt'.up /\ rt'.startups = rt.startups + 1
             /\ last'.op = "new" /\ last'.res = "ok"
       /\ (last'.op = "new" /\ last'.res = "panic"
             /\ (pc'[t] # pc[t] \/ panicking'[t] # panicking[t])) =>
             EngineHolders # {} /\ REB_STARTED_UP

C19_GateReusable == []C19_State /\ [][C19_Step]_vars

\* A second Engine has been started after the first was dropped, although a
\* new() failed while the first was live.
C19_Witness ==
    /\ last.op = "new" /\ last.res = "ok"
    /\ rt.startups = 2 /\ rt.shutdowns = 1 /\ rt.up
    /\ \E t, u \in Threads : t # u /\ pc[t] = "running" /\ pc[u] = "dead"

====
